---- MODULE Spec2Model ----
(***************************************************************************)
(* PKI 2FA microservice (app/main.py): the three HTTP handlers             *)
(* decrypt_seed_endpoint, generate_2fa and verify_2fa, the health check    *)
(* and the startup hook, running as concurrent requests over one seed      *)
(* file.  The collaborators imported by main.py (crypto_utils, totp_utils, *)
(* config) are modelled from their documented contracts: RSA decryption as *)
(* a function of an abstract ciphertext, TOTP as RFC 6238 over RFC 4226    *)
(* with a bit-exact HMAC-SHA1.                                             *)
(***************************************************************************)
EXTENDS Integers, Sequences, FiniteSets, TLC

(***************************************************************************)
(* Bounds of the model.                                                    *)
(***************************************************************************)
\* the wall clock at the first request, and the last instant it may reach
Epoch == 59
MaxTime == 61
\* the last instant of the clock when the requests start at an arbitrary time
MaxClock == 119

(***************************************************************************)
(* Characters and text.  Text is a sequence of one-character strings, so   *)
(* that writing, trimming, hex conversion and containment are computed.    *)
(***************************************************************************)
HexChars == <<"0", "1", "2", "3", "4", "5", "6", "7", "8", "9", "a", "b", "c", "d", "e", "f">>
DigitChars == SubSeq(HexChars, 1, 10)
Whitespace == {" ", "\n", "\t", "\r"}
NL == <<"\n">>

\* the literal message texts of main.py
\* "Private key load failed: "
MsgKeyLoadFailed ==
    <<"P", "r", "i", "v", "a", "t", "e", " ", "k", "e", "y", " ", "l", "o", "a", "d", " ", "f",
      "a", "i", "l", "e", "d", ":", " ">>
\* "Decryption failed"
MsgDecryptionFailed ==
    <<"D", "e", "c", "r", "y", "p", "t", "i", "o", "n", " ", "f", "a", "i", "l", "e", "d">>
\* "Failed to persist seed"
MsgPersistFailed ==
    <<"F", "a", "i", "l", "e", "d", " ", "t", "o", " ", "p", "e", "r", "s", "i", "s", "t", " ",
      "s", "e", "e", "d">>
\* "Seed not decrypted yet"
MsgSeedNotDecrypted ==
    <<"S", "e", "e", "d", " ", "n", "o", "t", " ", "d", "e", "c", "r", "y", "p", "t", "e", "d",
      " ", "y", "e", "t">>
\* "Error reading seed"
MsgErrorReading ==
    <<"E", "r", "r", "o", "r", " ", "r", "e", "a", "d", "i", "n", "g", " ", "s", "e", "e", "d">>
\* "Error generating TOTP"
MsgErrorGenerating ==
    <<"E", "r", "r", "o", "r", " ", "g", "e", "n", "e", "r", "a", "t", "i", "n", "g", " ", "T",
      "O", "T", "P">>
\* "Missing code"
MsgMissingCode ==
    <<"M", "i", "s", "s", "i", "n", "g", " ", "c", "o", "d", "e">>
\* "Error verifying TOTP"
MsgErrorVerifying ==
    <<"E", "r", "r", "o", "r", " ", "v", "e", "r", "i", "f", "y", "i", "n", "g", " ", "T", "O",
      "T", "P">>
\* "ok"
MsgOk ==
    <<"o", "k">>

\* texts of the exceptions the collaborators raise
\* "No such file: student_private.pem"
ExcNoKeyFile ==
    <<"N", "o", " ", "s", "u", "c", "h", " ", "f", "i", "l", "e", ":", " ", "s", "t", "u", "d",
      "e", "n", "t", "_", "p", "r", "i", "v", "a", "t", "e", ".", "p", "e", "m">>
\* "Could not deserialize key data"
ExcBadKey ==
    <<"C", "o", "u", "l", "d", " ", "n", "o", "t", " ", "d", "e", "s", "e", "r", "i", "a", "l",
      "i", "z", "e", " ", "k", "e", "y", " ", "d", "a", "t", "a">>
\* "Incorrect padding"
ExcBase64 ==
    <<"I", "n", "c", "o", "r", "r", "e", "c", "t", " ", "p", "a", "d", "d", "i", "n", "g">>
\* "Ciphertext length must be equal to key size"
ExcLength ==
    <<"C", "i", "p", "h", "e", "r", "t", "e", "x", "t", " ", "l", "e", "n", "g", "t", "h", " ",
      "m", "u", "s", "t", " ", "b", "e", " ", "e", "q", "u", "a", "l", " ", "t", "o", " ", "k",
      "e", "y", " ", "s", "i", "z", "e">>
\* "Decryption failed"
ExcDecrypt ==
    <<"D", "e", "c", "r", "y", "p", "t", "i", "o", "n", " ", "f", "a", "i", "l", "e", "d">>

\* str.strip(): drop leading and trailing whitespace
RECURSIVE lstrip(_)
lstrip(s) == IF Len(s) > 0 /\ s[1] \in Whitespace THEN lstrip(Tail(s)) ELSE s
RECURSIVE rstrip(_)
rstrip(s) == IF Len(s) > 0 /\ s[Len(s)] \in Whitespace THEN rstrip(SubSeq(s, 1, Len(s) - 1)) ELSE s
strip(s) == rstrip(lstrip(s))

\* needle occurs in hay as a contiguous run of characters
Contains(hay, needle) ==
    \E i \in 1..(Len(hay) - Len(needle) + 1) : SubSeq(hay, i, i + Len(needle) - 1) = needle

\* bytes -> lowercase hexadecimal text
RECURSIVE hexlify(_)
hexlify(bytes) ==
    IF Len(bytes) = 0 THEN <<>>
    ELSE <<HexChars[(bytes[1] \div 16) + 1], HexChars[(bytes[1] % 16) + 1]>> \o hexlify(Tail(bytes))

IsHexChar(c) == \E i \in 1..16 : HexChars[i] = c
HexVal(c) == (CHOOSE i \in 1..16 : HexChars[i] = c) - 1
IsHex(s) == Len(s) % 2 = 0 /\ \A i \in 1..Len(s) : IsHexChar(s[i])
\* hexadecimal text -> bytes (defined where IsHex holds)
unhexlify(s) == [i \in 1..(Len(s) \div 2) |-> 16 * HexVal(s[2 * i - 1]) + HexVal(s[2 * i])]

\* a number as zero-padded decimal text of the given width
RECURSIVE zfill(_, _)
zfill(n, width) ==
    IF width = 0 THEN <<>> ELSE zfill(n \div 10, width - 1) \o <<DigitChars[(n % 10) + 1]>>

(***************************************************************************)
(* SHA-1 and HMAC-SHA1 (RFC 3174, RFC 2104).  A 32-bit word is the pair    *)
(* <<high 16 bits, low 16 bits>>; a message is a sequence of bytes.        *)
(***************************************************************************)
RECURSIVE BitXor(_, _)
BitXor(a, b) ==
    IF a = 0 THEN b
    ELSE IF b = 0 THEN a
    ELSE ((a + b) % 2) + 2 * BitXor(a \div 2, b \div 2)

RECURSIVE BitAnd(_, _)
BitAnd(a, b) ==
    IF a = 0 \/ b = 0 THEN 0
    ELSE ((a % 2) * (b % 2)) + 2 * BitAnd(a \div 2, b \div 2)

WXor(x, y) == <<BitXor(x[1], y[1]), BitXor(x[2], y[2])>>
WAnd(x, y) == <<BitAnd(x[1], y[1]), BitAnd(x[2], y[2])>>
WNot(x) == <<65535 - x[1], 65535 - x[2]>>
WOr(x, y) == WNot(WAnd(WNot(x), WNot(y)))
WAdd(x, y) ==
    LET lo == x[2] + y[2]
    IN  <<(x[1] + y[1] + (lo \div 65536)) % 65536, lo % 65536>>
\* rotate left by n, 0 < n < 16
RotlSmall(x, n) ==
    LET p == 2 ^ n
        q == 2 ^ (16 - n)
    IN  <<((x[1] * p) % 65536) + (x[2] \div q), ((x[2] * p) % 65536) + (x[1] \div q)>>
Rotl(x, n) == IF n < 16 THEN RotlSmall(x, n) ELSE RotlSmall(<<x[2], x[1]>>, n - 16)

\* message schedule: extend w by the words lo..hi (evaluated strictly, by halves)
RECURSIVE Schedule(_, _, _)
Schedule(w, lo, hi) ==
    IF lo = hi
    THEN Append(w, Rotl(WXor(WXor(w[lo - 3], w[lo - 8]), WXor(w[lo - 14], w[lo - 16])), 1))
    ELSE LET mid == (lo + hi) \div 2
         IN  CHOOSE r \in {Schedule(x, mid + 1, hi) : x \in {Schedule(w, lo, mid)}} : TRUE

ShaF(t, b, c, d) ==
    IF t < 20 THEN WOr(WAnd(b, c), WAnd(WNot(b), d))
    ELSE IF t < 40 THEN WXor(WXor(b, c), d)
    ELSE IF t < 60 THEN WOr(WOr(WAnd(b, c), WAnd(b, d)), WAnd(c, d))
    ELSE WXor(WXor(b, c), d)
\* 5A827999, 6ED9EBA1, 8F1BBCDC, CA62C1D6
ShaK(t) ==
    IF t < 20 THEN <<23170, 31129>>
    ELSE IF t < 40 THEN <<28377, 60321>>
    ELSE IF t < 60 THEN <<36635, 48348>>
    ELSE <<51810, 49622>>

Round(w, t, s) ==
    LET tmp == WAdd(WAdd(WAdd(Rotl(s[1], 5), ShaF(t, s[2], s[3], s[4])), WAdd(s[5], ShaK(t))), w[t + 1])
    IN  <<tmp, s[1], Rotl(s[2], 30), s[3], s[4]>>

RECURSIVE Rounds(_, _, _, _)
Rounds(w, lo, hi, s) ==
    IF lo = hi THEN Round(w, lo, s)
    ELSE LET mid == (lo + hi) \div 2
         IN  CHOOSE r \in {Rounds(w, mid + 1, hi, x) : x \in {Rounds(w, lo, mid, s)}} : TRUE

Compress(h, block) ==
    LET w0 == [i \in 1..16 |-> <<block[4 * i - 3] * 256 + block[4 * i - 2],
                                 block[4 * i - 1] * 256 + block[4 * i]>>]
        s == Rounds(Schedule(w0, 17, 80), 0, 79, h)
    IN  [i \in 1..5 |-> WAdd(h[i], s[i])]

Zeros(n) == [i \in 1..n |-> 0]

\* padding: 0x80, zeros, and the bit length (messages here are under 8192 bytes)
Pad(msg) ==
    LET n == Len(msg)
        bits == n * 8
    IN  msg \o <<128>> \o Zeros((119 - (n % 64)) % 64) \o Zeros(6) \o <<bits \div 256, bits % 256>>

RECURSIVE Blocks(_, _)
Blocks(h, m) ==
    IF Len(m) = 0 THEN h
    ELSE CHOOSE r \in {Blocks(x, SubSeq(m, 65, Len(m))) : x \in {Compress(h, SubSeq(m, 1, 64))}} : TRUE

\* 67452301, EFCDAB89, 98BADCFE, 10325476, C3D2E1F0
ShaH0 == <<<<26437, 8961>>, <<61389, 43913>>, <<39098, 56574>>, <<4146, 21622>>, <<50130, 57840>>>>

RECURSIVE WordsToBytes(_)
WordsToBytes(ws) ==
    IF Len(ws) = 0 THEN <<>>
    ELSE <<ws[1][1] \div 256, ws[1][1] % 256, ws[1][2] \div 256, ws[1][2] % 256>>
         \o WordsToBytes(Tail(ws))

SHA1(msg) == WordsToBytes(Blocks(ShaH0, Pad(msg)))

HMAC_SHA1(key, msg) ==
    LET k0 == IF Len(key) > 64 THEN SHA1(key) ELSE key
        kp == k0 \o Zeros(64 - Len(k0))
        ipad == [i \in 1..64 |-> BitXor(kp[i], 54)]
        opad == [i \in 1..64 |-> BitXor(kp[i], 92)]
    IN  SHA1(opad \o SHA1(ipad \o msg))

\* a counter as big-endian bytes of the given width
RECURSIVE BigEndian(_, _)
BigEndian(n, width) ==
    IF width = 0 THEN <<>> ELSE BigEndian(n \div 256, width - 1) \o <<n % 256>>

\* RFC 4226: dynamic truncation of the digest to a 31-bit number
Truncate(d) ==
    LET o == d[20] % 16
    IN  ((d[o + 1] % 128) * 16777216) + (d[o + 2] * 65536) + (d[o + 3] * 256) + d[o + 4]

HOTP(key, counter) == Truncate(HMAC_SHA1(key, BigEndian(counter, 8)))

(***************************************************************************)
(* totp_utils: RFC 6238 over HOTP.  A call either returns a value or       *)
(* raises; Return/Raise are the two outcomes of a collaborator call.       *)
(***************************************************************************)
Return(v) == [ok |-> TRUE, value |-> v, exc |-> <<>>]
Raise(default, e) == [ok |-> FALSE, value |-> default, exc |-> e]

TOTP_DIGITS == 6
TOTP_STEP == 30

\* the shared secrets of the model, as raw bytes: the RFC 6238 test secret
\* "12345678901234567890" and a shorter one, 0c f6 d9, whose six-digit codes
\* of time steps 1 and 3 coincide (911513)
SeedA == <<49, 50, 51, 52, 53, 54, 55, 56, 57, 48, 49, 50, 51, 52, 53, 54, 55, 56, 57, 48>>
SeedB == <<12, 246, 217>>
SeedPlaintexts == {SeedA, SeedB}

\* the time steps the bounded clock can ask for (one step of tolerance each way,
\* and one more for a code from outside the window)
MaxCounter == (MaxClock \div TOTP_STEP) + 2
\* HOTP of every modelled key and counter, computed once: triples <<key, counter, value>>
HotpTable == {<<kc[1], kc[2], HOTP(kc[1], kc[2])>> : kc \in SeedPlaintexts \X (0..MaxCounter)}
HotpValue(key, counter) ==
    IF \E e \in HotpTable : e[1] = key /\ e[2] = counter
    THEN (CHOOSE e \in HotpTable : e[1] = key /\ e[2] = counter)[3]
    ELSE HOTP(key, counter)

ValidSecretHex(hex) == IsHex(hex) /\ Len(hex) > 0

\* generate(secretHex, atTime, digits = 6, stepSeconds = 30)
totp_at(secretHex, atTime) ==
    zfill(HotpValue(unhexlify(secretHex), atTime \div TOTP_STEP) % (10 ^ TOTP_DIGITS), TOTP_DIGITS)

\* generate_totp_code(hex_seed), called when the clock reads t
generate_totp_code(hex_seed, t) ==
    IF ValidSecretHex(hex_seed) THEN Return(totp_at(hex_seed, t))
    ELSE Raise(<<>>, "TotpComputeError")

WellFormedCode(code) ==
    Len(code) = TOTP_DIGITS /\ \A i \in 1..Len(code) : \E d \in 1..10 : DigitChars[d] = code[i]

\* verify_totp_code(hex_seed, code, valid_window = w), called when the clock reads t
verify_totp_code(hex_seed, code, w, t) ==
    IF ~WellFormedCode(code) THEN Raise(FALSE, "ValidationError")
    ELSE IF ~ValidSecretHex(hex_seed) THEN Raise(FALSE, "TotpComputeError")
    ELSE Return(\E k \in (0 - w)..w : totp_at(hex_seed, t + k * TOTP_STEP) = code)

\* seconds_remaining_in_period(period), called when the clock reads t
seconds_remaining_in_period(p, t) == p - (t % p)

(***************************************************************************)
(* crypto_utils.  A ciphertext is described by what decryption finds in    *)
(* it: whether it is base64, how many key-size blocks it decodes to,       *)
(* whether its padding verifies under the key, and the bytes it encrypts.  *)
(***************************************************************************)
Ciphertext(b64, blocks, padding, plaintext) ==
    [base64 |-> b64, blocks |-> blocks, padding |-> padding, plaintext |-> plaintext]

EncryptedSeeds ==
    { Ciphertext(TRUE, 1, TRUE, SeedA),
      Ciphertext(TRUE, 1, TRUE, SeedB),
      Ciphertext(FALSE, 0, FALSE, <<>>),
      Ciphertext(TRUE, 2, FALSE, <<>>),
      Ciphertext(TRUE, 1, FALSE, SeedA) }

\* the private key file as load_private_key finds it
KeyFiles == {"valid", "missing", "corrupt"}

load_private_key(keyfile) ==
    IF keyfile = "valid" THEN Return("student_private.pem")
    ELSE IF keyfile = "missing" THEN Raise("", ExcNoKeyFile)
    ELSE Raise("", ExcBadKey)

\* decrypt(ciphertextBase64, key): base64-decode, RSA-decrypt one block, render as hex
decrypt_seed(encrypted_seed, private_key) ==
    IF ~encrypted_seed.base64 THEN Raise(<<>>, ExcBase64)
    ELSE IF encrypted_seed.blocks # 1 THEN Raise(<<>>, ExcLength)
    ELSE IF ~encrypted_seed.padding THEN Raise(<<>>, ExcDecrypt)
    ELSE Return(hexlify(encrypted_seed.plaintext))

(***************************************************************************)
(* Responses.  Every response has the same shape; keys names the fields    *)
(* of its JSON body.                                                       *)
(***************************************************************************)
NoResponse ==
    [status_code |-> 0, keys |-> {}, detail |-> <<>>, status |-> <<>>, code |-> <<>>,
     valid_for |-> 0, valid |-> FALSE]
HTTPException(status_code, detail) ==
    [NoResponse EXCEPT !.status_code = status_code, !.keys = {"detail"}, !.detail = detail]
StatusOk == [NoResponse EXCEPT !.status_code = 200, !.keys = {"status"}, !.status = MsgOk]
CodeResponse(code, valid_for) ==
    [NoResponse EXCEPT !.status_code = 200, !.keys = {"code", "valid_for"}, !.code = code,
                       !.valid_for = valid_for]
ValidResponse(valid) ==
    [NoResponse EXCEPT !.status_code = 200, !.keys = {"valid"}, !.valid = valid]

\* the pieces of the handlers that build a response or decide a branch
key_load_failed_response(e) == HTTPException(500, MsgKeyLoadFailed \o e)
\* variant: the exception text is appended to the detail
decrypt_failed_response_detail(e) == HTTPException(500, MsgDecryptionFailed \o <<":", " ">> \o e)
decrypt_failed_response(e) == HTTPException(500, MsgDecryptionFailed)
persist_failed_response(e) == HTTPException(500, MsgPersistFailed)
\* variant: the success response echoes the seed
decrypt_ok_response_echo(hex_seed) == [StatusOk EXCEPT !.keys = {"status", "seed"}, !.detail = hex_seed]
decrypt_ok_response(hex_seed) == StatusOk
seed_missing_response == HTTPException(500, MsgSeedNotDecrypted)
read_failed_response == HTTPException(500, MsgErrorReading)
generate_failed_response(e) == HTTPException(500, MsgErrorGenerating)
verify_failed_response(e) == HTTPException(500, MsgErrorVerifying)
missing_code_response == HTTPException(400, MsgMissingCode)
generate_ok_response(code, valid_for) == CodeResponse(code, valid_for)
verify_ok_response(valid) == ValidResponse(valid)

\* variant: the code is compared without strip()
code_missing_no_strip(body) == ~body.present \/ body.code = <<>>
\* body.code is None or body.code.strip() == ""
code_missing(body) == ~body.present \/ strip(body.code) = <<>>
\* SEED_FILE.read_text(encoding="utf-8").strip()
read_text_strip(text) == strip(text)
\* hex_seed + "\n"
seed_line(hex_seed) == hex_seed \o NL
\* the text a decrypt-seed writes over the start of the file
WriteAt0(text, data) == data \o SubSeq(text, Len(data) + 1, Len(text))
\* variant: no tolerance window
verify_call_no_window(hex_seed, code, t) == verify_totp_code(hex_seed, code, 0, t)
\* variant: the window is taken around a clock running one step ahead
verify_call_ahead(hex_seed, code, t) == verify_totp_code(hex_seed, code, 1, t + 30)
\* verify_totp_code(hex_seed, body.code, valid_window=1)
verify_call(hex_seed, code, t) == verify_totp_code(hex_seed, code, 1, t)
\* variant: a period of 60 seconds
valid_for_call_60(t) == seconds_remaining_in_period(60, t)
\* seconds_remaining_in_period(30)
valid_for_call(t) == seconds_remaining_in_period(30, t)
\* variant: the code is computed for a clock running 15 seconds ahead
generate_call_skew(hex_seed, t) == generate_totp_code(hex_seed, t + 15)
\* variant: the code is computed for the next second
generate_call_next_second(hex_seed, t) == generate_totp_code(hex_seed, t + 1)
\* generate_totp_code(hex_seed)
generate_call(hex_seed, t) == generate_totp_code(hex_seed, t)

(***************************************************************************)
(* State.                                                                  *)
(***************************************************************************)
\* the request slots: decrypt-seed clients, and generate/verify/health clients
DecryptSlots == {"w1", "w2"}
Writers == {"w1"}
Readers == {"r1"}

\* the request bodies of verify-2fa: no code, blank codes, a malformed code, and
\* the codes of the secrets at every time step of the model
Code(present, code) == [present |-> present, code |-> code]
CandidateCodes ==
    { zfill(HotpValue(kc[1], kc[2]) % (10 ^ TOTP_DIGITS), TOTP_DIGITS) :
        kc \in SeedPlaintexts \X (0..MaxCounter) }
VerifyBodies ==
    { Code(FALSE, <<>>), Code(TRUE, <<>>), Code(TRUE, <<" ", "\n">>),
      Code(TRUE, <<"1", "2", "a", "b">>) }
    \cup { Code(TRUE, c) : c \in CandidateCodes }

NoFile == [exists |-> FALSE, text |-> <<>>]

VARIABLES
    started,      \* the startup hook has run and the process serves requests
    DATA_DIR,     \* the data directory exists
    SEED_FILE,    \* the seed file: whether it exists, and its text
    now,          \* the wall clock, in seconds
    dec,          \* per decrypt-seed slot: position and locals of the handler
    rd,           \* per generate/verify slot: position and locals of the handler
    last,         \* the request answered by the step just taken, with its response
    lastOk,       \* history: the hex of the latest decrypt-seed that returned ok, and
                  \* what has happened since: "none", only a "restart", or a "decrypt"
    concurrent,   \* history: some request began while another was in flight
    kept          \* history: an earlier answer a client has kept

vars == <<started, DATA_DIR, SEED_FILE, now, dec, rd, last, lastOk, concurrent, kept>>

WriterIdle ==
    [pc |-> "idle", body |-> Ciphertext(FALSE, 0, FALSE, <<>>), keyfile |-> "valid",
     hex_seed |-> <<>>,
     before |-> NoFile,     \* history: SEED_FILE when the request began
     foreign |-> FALSE,     \* history: another request wrote SEED_FILE since then
     rival |-> <<>>]        \* history: the hex of a decrypt-seed that returned ok since then
ReaderIdle ==
    [pc |-> "idle", op |-> "none", body |-> Code(FALSE, <<>>), hex_seed |-> <<>>,
     code |-> <<>>,
     used |-> {},           \* history: the collaborators the request has called
     t_code |-> 0]          \* history: the clock when the TOTP engine was called

\* an answer: the operation, its inputs, what the handler saw, and the response
NoAnswer ==
    [op |-> "none", who |-> "", resp |-> NoResponse,
     error |-> "none",      \* the kind of error the handler ran into
     exc |-> <<>>,          \* the text of the exception it caught
     enc |-> Ciphertext(FALSE, 0, FALSE, <<>>), keyfile |-> "valid",
     before |-> NoFile, foreign |-> FALSE, rival |-> <<>>,
     body |-> Code(FALSE, <<>>), hex_seed |-> <<>>, used |-> {},
     t_code |-> 0, t_valid |-> 0]

DecryptAnswer(w, call, resp, error, exc) ==
    [NoAnswer EXCEPT !.op = "decrypt", !.who = w, !.resp = resp, !.error = error, !.exc = exc,
                     !.enc = call.body, !.keyfile = call.keyfile, !.hex_seed = call.hex_seed,
                     !.before = call.before, !.foreign = call.foreign,
                     !.rival = call.rival]
ReaderAnswer(r, call, resp, error, t_valid) ==
    [NoAnswer EXCEPT !.op = call.op, !.who = r, !.resp = resp, !.error = error,
                     !.body = call.body, !.hex_seed = call.hex_seed, !.used = call.used,
                     !.t_code = call.t_code, !.t_valid = t_valid]

NoKept == [error |-> "none", resp |-> NoResponse, t_code |-> 0]

Init ==
    /\ started = FALSE
    /\ DATA_DIR = FALSE
    /\ SEED_FILE = NoFile
    /\ now = Epoch
    /\ dec = [w \in DecryptSlots |-> WriterIdle]
    /\ rd = [r \in Readers |-> ReaderIdle]
    /\ last = NoAnswer
    /\ lastOk = [set |-> FALSE, hex |-> <<>>, since |-> "none"]
    /\ concurrent = FALSE
    /\ kept = NoKept

WriterBusy(w) == dec[w].pc # "idle"
ReaderBusy(r) == rd[r].pc # "idle"
OthersBusy(p) ==
    \/ \E w \in DecryptSlots \ {p} : WriterBusy(w)
    \/ \E r \in Readers \ {p} : ReaderBusy(r)

(***************************************************************************)
(* Startup, shutdown and the clock.                                        *)
(***************************************************************************)
\* history: the process starts
Restarted(ok) == IF ok.set /\ ok.since # "decrypt" THEN [ok EXCEPT !.since = "restart"] ELSE ok
\* history: a decrypt-seed begins
DecryptBegun(ok) == IF ok.set THEN [ok EXCEPT !.since = "decrypt"] ELSE ok

\* variant: the startup hook creates the data directory afresh
ensure_directories_afresh ==
    /\ ~started
    /\ DATA_DIR' = TRUE
    /\ SEED_FILE' = NoFile
    /\ started' = TRUE
    /\ last' = NoAnswer
    /\ lastOk' = Restarted(lastOk)
    /\ UNCHANGED <<now, dec, rd, concurrent, kept>>
\* DATA_DIR.mkdir(parents=True, exist_ok=True)
ensure_directories ==
    /\ ~started
    /\ DATA_DIR' = TRUE
    /\ started' = TRUE
    /\ last' = NoAnswer
    /\ lastOk' = Restarted(lastOk)
    /\ UNCHANGED <<SEED_FILE, now, dec, rd, concurrent, kept>>

\* the server stops once the requests in flight have been answered
Shutdown ==
    /\ started
    /\ \A w \in DecryptSlots : ~WriterBusy(w)
    /\ \A r \in Readers : ~ReaderBusy(r)
    /\ started' = FALSE
    /\ last' = NoAnswer
    /\ UNCHANGED <<DATA_DIR, SEED_FILE, now, dec, rd, lastOk, concurrent, kept>>

Tick ==
    /\ now < MaxTime
    /\ now' = now + 1
    /\ last' = NoAnswer
    /\ UNCHANGED <<started, DATA_DIR, SEED_FILE, dec, rd, lastOk, concurrent, kept>>

health(r) ==
    /\ started
    /\ ~ReaderBusy(r)
    /\ last' = ReaderAnswer(r, [ReaderIdle EXCEPT !.op = "health"], StatusOk, "none", 0)
    /\ UNCHANGED <<started, DATA_DIR, SEED_FILE, now, dec, rd, lastOk, concurrent, kept>>

(***************************************************************************)
(* POST /decrypt-seed                                                      *)
(***************************************************************************)
\* the others' view: somebody else has written the file
MarkForeign(d, w) ==
    [v \in DecryptSlots |-> IF v = w THEN d[v] ELSE [d[v] EXCEPT !.foreign = TRUE]]

\* the view of the others in flight: somebody else has returned ok with hex_seed
MarkRival(d, w, hex_seed) ==
    [v \in DecryptSlots |->
        IF v # w /\ d[v].pc # "idle" THEN [d[v] EXCEPT !.rival = hex_seed] ELSE d[v]]

\* the request arrives; load_private_key("student_private.pem")
decrypt_seed_load_key(w, body, keyfile) ==
    /\ started
    /\ ~WriterBusy(w)
    /\ LET k == load_private_key(keyfile)
           call == [WriterIdle EXCEPT !.body = body, !.keyfile = keyfile, !.before = SEED_FILE]
       IN  IF k.ok
           THEN /\ dec' = [dec EXCEPT ![w] = [call EXCEPT !.pc = "decrypt"]]
                /\ last' = NoAnswer
           ELSE /\ dec' = dec
                /\ last' = DecryptAnswer(w, call, key_load_failed_response(k.exc),
                                         "KeyLoadError", k.exc)
    /\ concurrent' = (concurrent \/ OthersBusy(w))
    /\ lastOk' = DecryptBegun(lastOk)
    /\ UNCHANGED <<started, DATA_DIR, SEED_FILE, now, rd, kept>>

\* variant: the exception of decrypt_seed is swallowed and an empty seed is stored
decrypt_seed_decrypt_swallow(w) ==
    /\ dec[w].pc = "decrypt"
    /\ LET d == decrypt_seed(dec[w].body, load_private_key(dec[w].keyfile).value)
       IN  dec' = [dec EXCEPT ![w].pc = "open", ![w].hex_seed = d.value]
    /\ last' = NoAnswer
    /\ UNCHANGED <<started, DATA_DIR, SEED_FILE, now, rd, lastOk, concurrent, kept>>

\* hex_seed = decrypt_seed(body.encrypted_seed, private_key)
decrypt_seed_decrypt(w) ==
    /\ dec[w].pc = "decrypt"
    /\ LET d == decrypt_seed(dec[w].body, load_private_key(dec[w].keyfile).value)
       IN  IF d.ok
           THEN /\ dec' = [dec EXCEPT ![w].pc = "open", ![w].hex_seed = d.value]
                /\ last' = NoAnswer
           ELSE /\ dec' = [dec EXCEPT ![w] = WriterIdle]
                /\ last' = DecryptAnswer(w, dec[w], decrypt_failed_response(d.exc),
                                         "DecryptionError", d.exc)
    /\ UNCHANGED <<started, DATA_DIR, SEED_FILE, now, rd, lastOk, concurrent, kept>>

\* variant: the file is opened for update, which keeps its text
decrypt_seed_open_keep(w) ==
    /\ dec[w].pc = "open"
    /\ \E io_ok \in BOOLEAN :
          IF io_ok
          THEN /\ SEED_FILE' = [exists |-> TRUE, text |-> SEED_FILE.text]
               /\ dec' = MarkForeign([dec EXCEPT ![w].pc = "write"], w)
               /\ last' = NoAnswer
          ELSE /\ SEED_FILE' = SEED_FILE
               /\ dec' = [dec EXCEPT ![w] = WriterIdle]
               /\ last' = DecryptAnswer(w, dec[w], persist_failed_response("OSError"),
                                        "PersistenceError", <<>>)
    /\ UNCHANGED <<started, DATA_DIR, now, rd, lastOk, concurrent, kept>>
\* write_text opens the file for writing, which creates or truncates it
decrypt_seed_open(w) ==
    /\ dec[w].pc = "open"
    /\ \E io_ok \in BOOLEAN :
          IF io_ok
          THEN /\ SEED_FILE' = [exists |-> TRUE, text |-> <<>>]
               /\ dec' = MarkForeign([dec EXCEPT ![w].pc = "write"], w)
               /\ last' = NoAnswer
          ELSE /\ SEED_FILE' = SEED_FILE
               /\ dec' = [dec EXCEPT ![w] = WriterIdle]
               /\ last' = DecryptAnswer(w, dec[w], persist_failed_response("OSError"),
                                        "PersistenceError", <<>>)
    /\ UNCHANGED <<started, DATA_DIR, now, rd, lastOk, concurrent, kept>>

\* write_text writes the line and closes the file; return {"status": "ok"}
decrypt_seed_write(w) ==
    /\ dec[w].pc = "write"
    /\ \E io_ok \in BOOLEAN :
          IF io_ok
          THEN /\ SEED_FILE' = [exists |-> TRUE,
                                text |-> WriteAt0(SEED_FILE.text, seed_line(dec[w].hex_seed))]
               /\ dec' = MarkRival(MarkForeign([dec EXCEPT ![w] = WriterIdle], w),
                                    w, dec[w].hex_seed)
               /\ last' = DecryptAnswer(w, dec[w], decrypt_ok_response(dec[w].hex_seed),
                                        "none", <<>>)
               /\ lastOk' = [set |-> TRUE, hex |-> dec[w].hex_seed,
                              since |-> IF OthersBusy(w) THEN "decrypt" ELSE "none"]
          ELSE /\ SEED_FILE' = SEED_FILE
               /\ dec' = [dec EXCEPT ![w] = WriterIdle]
               /\ last' = DecryptAnswer(w, dec[w], persist_failed_response("OSError"),
                                        "PersistenceError", <<>>)
               /\ lastOk' = lastOk
    /\ UNCHANGED <<started, DATA_DIR, now, rd, concurrent, kept>>

(***************************************************************************)
(* GET /generate-2fa and POST /verify-2fa                                  *)
(***************************************************************************)
\* SEED_FILE.exists()
seed_exists == SEED_FILE.exists

\* variant: the seed is consumed by the read, which leaves the file empty
read_seed_consume(r) ==
    /\ rd[r].pc = "read"
    /\ \E io_ok \in BOOLEAN :
          LET call == [rd[r] EXCEPT !.used = @ \cup {"read_text"}]
          IN  IF io_ok
              THEN /\ rd' = [rd EXCEPT ![r] =
                                [call EXCEPT !.pc = "totp",
                                             !.hex_seed = read_text_strip(SEED_FILE.text)]]
                   /\ SEED_FILE' = [exists |-> TRUE, text |-> <<>>]
                   /\ last' = NoAnswer
              ELSE /\ rd' = [rd EXCEPT ![r] = ReaderIdle]
                   /\ SEED_FILE' = SEED_FILE
                   /\ last' = ReaderAnswer(r, call, read_failed_response, "PersistenceError", 0)
    /\ UNCHANGED <<started, DATA_DIR, now, dec, lastOk, concurrent, kept>>
\* hex_seed = SEED_FILE.read_text(encoding="utf-8").strip()
read_seed(r) ==
    /\ rd[r].pc = "read"
    /\ \E io_ok \in BOOLEAN :
          LET call == [rd[r] EXCEPT !.used = @ \cup {"read_text"}]
          IN  IF io_ok
              THEN /\ rd' = [rd EXCEPT ![r] =
                                [call EXCEPT !.pc = "totp",
                                             !.hex_seed = read_text_strip(SEED_FILE.text)]]
                   /\ last' = NoAnswer
              ELSE /\ rd' = [rd EXCEPT ![r] = ReaderIdle]
                   /\ last' = ReaderAnswer(r, call, read_failed_response, "PersistenceError", 0)
    /\ UNCHANGED <<started, DATA_DIR, SEED_FILE, now, dec, lastOk, concurrent, kept>>

\* the request arrives; if not SEED_FILE.exists(): raise
generate_2fa_exists(r) ==
    /\ started
    /\ ~ReaderBusy(r)
    /\ LET call == [ReaderIdle EXCEPT !.op = "generate", !.used = {"exists"}]
       IN  IF ~seed_exists
           THEN /\ rd' = rd
                /\ last' = ReaderAnswer(r, call, seed_missing_response,
                                        "SeedNotInitializedError", 0)
           ELSE /\ rd' = [rd EXCEPT ![r] = [call EXCEPT !.pc = "read"]]
                /\ last' = NoAnswer
    /\ concurrent' = (concurrent \/ OthersBusy(r))
    /\ UNCHANGED <<started, DATA_DIR, SEED_FILE, now, dec, lastOk, kept>>

generate_2fa_read(r) == rd[r].op = "generate" /\ read_seed(r)

\* code = generate_totp_code(hex_seed)
generate_2fa_code(r) ==
    /\ rd[r].op = "generate"
    /\ rd[r].pc = "totp"
    /\ LET g == generate_call(rd[r].hex_seed, now)
           call == [rd[r] EXCEPT !.used = @ \cup {"totp"}, !.t_code = now]
       IN  IF g.ok
           THEN /\ rd' = [rd EXCEPT ![r] = [call EXCEPT !.pc = "valid_for", !.code = g.value]]
                /\ last' = NoAnswer
           ELSE /\ rd' = [rd EXCEPT ![r] = ReaderIdle]
                /\ last' = ReaderAnswer(r, call, generate_failed_response(g.exc), g.exc, 0)
    /\ UNCHANGED <<started, DATA_DIR, SEED_FILE, now, dec, lastOk, concurrent, kept>>

\* valid_for = seconds_remaining_in_period(30); return {"code": code, "valid_for": valid_for}
generate_2fa_valid_for(r) ==
    /\ rd[r].op = "generate"
    /\ rd[r].pc = "valid_for"
    /\ rd' = [rd EXCEPT ![r] = ReaderIdle]
    /\ last' = ReaderAnswer(r, rd[r], generate_ok_response(rd[r].code, valid_for_call(now)),
                            "none", now)
    /\ UNCHANGED <<started, DATA_DIR, SEED_FILE, now, dec, lastOk, concurrent, kept>>

\* the request arrives; the code is validated, then if not SEED_FILE.exists(): raise
verify_2fa_exists(r, body) ==
    /\ started
    /\ ~ReaderBusy(r)
    /\ LET call == [ReaderIdle EXCEPT !.op = "verify", !.body = body]
           checked == [call EXCEPT !.used = {"exists"}]
       IN  IF code_missing(body)
           THEN /\ rd' = rd
                /\ last' = ReaderAnswer(r, call, missing_code_response, "ValidationError", 0)
           ELSE IF ~seed_exists
           THEN /\ rd' = rd
                /\ last' = ReaderAnswer(r, checked, seed_missing_response,
                                        "SeedNotInitializedError", 0)
           ELSE /\ rd' = [rd EXCEPT ![r] = [checked EXCEPT !.pc = "read"]]
                /\ last' = NoAnswer
    /\ concurrent' = (concurrent \/ OthersBusy(r))
    /\ UNCHANGED <<started, DATA_DIR, SEED_FILE, now, dec, lastOk, kept>>

verify_2fa_read(r) == rd[r].op = "verify" /\ read_seed(r)

\* valid = verify_totp_code(hex_seed, body.code, valid_window=1); return {"valid": valid}
verify_2fa_verify(r) ==
    /\ rd[r].op = "verify"
    /\ rd[r].pc = "totp"
    /\ LET v == verify_call(rd[r].hex_seed, rd[r].body.code, now)
           call == [rd[r] EXCEPT !.used = @ \cup {"totp"}, !.t_code = now]
       IN  /\ rd' = [rd EXCEPT ![r] = ReaderIdle]
           /\ last' = IF v.ok THEN ReaderAnswer(r, call, verify_ok_response(v.value), "none", 0)
                      ELSE ReaderAnswer(r, call, verify_failed_response(v.exc), v.exc, 0)
    /\ UNCHANGED <<started, DATA_DIR, SEED_FILE, now, dec, lastOk, concurrent, kept>>

\* a client keeps the failure answer it has just received
remember ==
    /\ last.error # "none"
    /\ kept # [error |-> last.error, resp |-> last.resp, t_code |-> 0]
    /\ kept' = [error |-> last.error, resp |-> last.resp, t_code |-> 0]
    /\ UNCHANGED <<started, DATA_DIR, SEED_FILE, now, dec, rd, last, lastOk, concurrent>>

\* a client keeps the code generate-2fa has just returned
keep_code ==
    /\ last.op = "generate"
    /\ "code" \in last.resp.keys
    /\ kept # [error |-> "none", resp |-> last.resp, t_code |-> last.t_code]
    /\ kept' = [error |-> "none", resp |-> last.resp, t_code |-> last.t_code]
    /\ UNCHANGED <<started, DATA_DIR, SEED_FILE, now, dec, rd, last, lastOk, concurrent>>

Next ==
    \/ ensure_directories
    \/ Shutdown
    \/ Tick
    \/ \E r \in Readers : health(r)
    \/ \E w \in Writers, body \in EncryptedSeeds, keyfile \in KeyFiles :
          decrypt_seed_load_key(w, body, keyfile)
    \/ \E w \in Writers : decrypt_seed_decrypt(w)
    \/ \E w \in Writers : decrypt_seed_open(w)
    \/ \E w \in Writers : decrypt_seed_write(w)
    \/ \E r \in Readers : generate_2fa_exists(r)
    \/ \E r \in Readers : generate_2fa_read(r)
    \/ \E r \in Readers : generate_2fa_code(r)
    \/ \E r \in Readers : generate_2fa_valid_for(r)
    \/ \E r \in Readers, body \in VerifyBodies : verify_2fa_exists(r, body)
    \/ \E r \in Readers : verify_2fa_read(r)
    \/ \E r \in Readers : verify_2fa_verify(r)

Spec == Init /\ [][Next]_vars

\* the same requests at one instant, with a client that keeps failure answers
NextErrors ==
    \/ remember
    \/ ensure_directories
    \/ Shutdown
    \/ \E w \in Writers, body \in EncryptedSeeds, keyfile \in KeyFiles :
          decrypt_seed_load_key(w, body, keyfile)
    \/ \E w \in Writers : decrypt_seed_decrypt(w)
    \/ \E w \in Writers : decrypt_seed_open(w)
    \/ \E w \in Writers : decrypt_seed_write(w)
    \/ \E r \in Readers : generate_2fa_exists(r)
    \/ \E r \in Readers : generate_2fa_read(r)
    \/ \E r \in Readers : generate_2fa_code(r)
    \/ \E r \in Readers : generate_2fa_valid_for(r)
    \/ \E r \in Readers, body \in VerifyBodies : verify_2fa_exists(r, body)
    \/ \E r \in Readers : verify_2fa_read(r)
    \/ \E r \in Readers : verify_2fa_verify(r)

SpecErrors == Init /\ [][NextErrors]_vars

\* the service with a secret stored, asked at an arbitrary instant
InitStored ==
    /\ started = TRUE
    /\ DATA_DIR = TRUE
    /\ SEED_FILE \in {[exists |-> TRUE, text |-> seed_line(hexlify(p))] : p \in SeedPlaintexts}
    /\ now \in TOTP_STEP..MaxClock
    /\ dec = [w \in DecryptSlots |-> WriterIdle]
    /\ rd = [r \in Readers |-> ReaderIdle]
    /\ last = NoAnswer
    /\ lastOk = [set |-> TRUE, hex |-> strip(SEED_FILE.text), since |-> "none"]
    /\ concurrent = FALSE
    /\ kept = NoKept

NextStored ==
    \/ \E r \in Readers : generate_2fa_exists(r)
    \/ \E r \in Readers : generate_2fa_read(r)
    \/ \E r \in Readers : generate_2fa_code(r)
    \/ \E r \in Readers : generate_2fa_valid_for(r)
    \/ \E r \in Readers, body \in VerifyBodies : verify_2fa_exists(r, body)
    \/ \E r \in Readers : verify_2fa_read(r)
    \/ \E r \in Readers : verify_2fa_verify(r)

SpecStored == InitStored /\ [][NextStored]_vars

\* two decrypt-seed requests in flight at once, each with a ciphertext that decrypts
ValidSeeds == {enc \in EncryptedSeeds : enc.base64 /\ enc.blocks = 1 /\ enc.padding}
NextRace ==
    \/ ensure_directories
    \/ \E w \in DecryptSlots, body \in ValidSeeds : decrypt_seed_load_key(w, body, "valid")
    \/ \E w \in DecryptSlots : decrypt_seed_decrypt(w)
    \/ \E w \in DecryptSlots : decrypt_seed_open(w)
    \/ \E w \in DecryptSlots : decrypt_seed_write(w)

SpecRace == Init /\ [][NextRace]_vars

\* the service with a secret stored and the clock running through the last
\* seconds of one time step into the next, with a client that keeps the codes
\* it is given and presents them later
InitIssued == InitStored /\ now \in (MaxTime - 3)..MaxTime
NextIssued ==
    \/ keep_code
    \/ Tick
    \/ NextStored

SpecIssued == InitIssued /\ [][NextIssued]_vars

TypeOK ==
    /\ started \in BOOLEAN
    /\ now \in 0..MaxClock
    /\ SEED_FILE.exists \in BOOLEAN
    /\ \A w \in DecryptSlots : dec[w].pc \in {"idle", "decrypt", "open", "write"}
    /\ \A r \in Readers : rd[r].pc \in {"idle", "read", "totp", "valid_for"}

(***************************************************************************)
(* Properties.                                                             *)
(***************************************************************************)
IsFailure(resp) == resp.status_code >= 400 /\ resp.keys = {"detail"}
IsSuccess(resp) == resp.status_code = 200 /\ "detail" \notin resp.keys
Blank(code) == \A i \in 1..Len(code) : code[i] \in Whitespace
\* generate-2fa, or verify-2fa with a code that is not blank
AsksForTotp(a) == a.op = "generate" \/ (a.op = "verify" /\ a.body.present /\ ~Blank(a.body.code))
\* the ciphertext decrypts: it is base64, one block long, and its padding verifies
Decrypts(enc) == enc.base64 /\ enc.blocks = 1 /\ enc.padding

\* C1: while no decrypt-seed has succeeded, generate-2fa and verify-2fa with a
\* non-blank code are answered with the seed-not-initialized error (or, when
\* reading the file fails, with the read error), never with a code, a verdict
\* or another error.
C1_SeedNotInitialized ==
    (AsksForTotp(last) /\ ~lastOk.set /\ last.error # "PersistenceError")
        => last.resp = HTTPException(500, MsgSeedNotDecrypted)

\* C2: when no two requests have ever overlapped, the secret a generate-2fa or
\* verify-2fa hands to the TOTP engine is the hex of the latest decrypt-seed
\* that returned ok.
C2_HandsLatestSecret ==
    \A r \in Readers :
        (~concurrent /\ rd[r].pc = "totp") => (lastOk.set /\ rd[r].hex_seed = lastOk.hex)

\* the complete seed lines a read may see: the one of the latest decrypt-seed
\* that returned ok, and those of the decrypt-seeds now writing
CompleteLines ==
    (IF lastOk.set THEN {lastOk.hex \o NL} ELSE {})
    \cup {dec[w].hex_seed \o NL : w \in {v \in DecryptSlots : dec[v].pc \in {"open", "write"}}}

\* C3: a read of the seed file made while a decrypt-seed is in flight returns
\* the complete old secret or the complete new one, never an empty or partial text.
C3_NoTornRead ==
    [][\A r \in Readers :
          (rd[r].pc = "read" /\ rd'[r].pc = "totp" /\ \E w \in DecryptSlots : WriterBusy(w))
              => rd'[r].hex_seed \in {strip(l) : l \in CompleteLines}]_vars

\* C4: with a secret set, verify-2fa at time t answers valid = true exactly when
\* the candidate is the code of time step floor(t/30)-1, floor(t/30) or floor(t/30)+1.
C4_VerifyWindow ==
    (last.op = "verify" /\ "totp" \in last.used /\ ValidSecretHex(last.hex_seed))
        => ((last.resp.keys = {"valid"} /\ last.resp.valid)
              <=> \E k \in {0 - 1, 0, 1} :
                     last.body.code = totp_at(last.hex_seed, ((last.t_code \div 30) + k) * 30))
\* a code of the previous time step was accepted
C4_Witness ==
    /\ last.op = "verify" /\ last.resp.keys = {"valid"} /\ last.resp.valid
    /\ last.body.code = totp_at(last.hex_seed, last.t_code - 30)
    /\ last.body.code # totp_at(last.hex_seed, last.t_code)

\* C5: verify-2fa answers a missing, empty or whitespace-only code with the
\* validation error, in every state, without having looked at the seed file or
\* called the TOTP engine.
C5_BlankCodeRejected ==
    (last.op = "verify" /\ (~last.body.present \/ Blank(last.body.code)))
        => (last.resp = HTTPException(400, MsgMissingCode) /\ last.used = {})
\* a whitespace-only code was rejected while no seed file existed
C5_Witness ==
    /\ last.op = "verify" /\ last.body.present /\ Len(last.body.code) > 0 /\ Blank(last.body.code)
    /\ last.resp.status_code = 400
    /\ ~SEED_FILE.exists

\* C6: a decrypt-seed whose key load or decryption fails is answered with an
\* error, and unless another request wrote the file meanwhile the seed file is
\* what it was when the request began.
C6_FailedDecryptKeepsSeed ==
    (last.op = "decrypt" /\ (last.keyfile # "valid" \/ ~Decrypts(last.enc)))
        => (IsFailure(last.resp) /\ (~last.foreign => SEED_FILE = last.before))
\* an undecryptable ciphertext was refused while a secret was stored
C6_Witness ==
    /\ last.op = "decrypt" /\ last.keyfile = "valid" /\ ~Decrypts(last.enc)
    /\ SEED_FILE.exists /\ Len(SEED_FILE.text) > 1
    /\ lastOk.set /\ SEED_FILE.text = lastOk.hex \o NL

\* C7: every failure of the decrypt step gets the same response, whatever made
\* the decryption fail.
C7_OpaqueDecryptFailure ==
    (last.op = "decrypt" /\ last.keyfile = "valid" /\ ~Decrypts(last.enc))
        => last.resp = HTTPException(500, MsgDecryptionFailed)
\* a ciphertext of the wrong length was refused (the collaborator's exception
\* text differs from the response text)
C7_Witness ==
    /\ last.op = "decrypt" /\ last.keyfile = "valid"
    /\ last.enc.base64 /\ last.enc.blocks # 1
    /\ last.exc = ExcLength /\ last.exc # last.resp.detail

\* C8: no response contains the hex text of a secret.
C8_NoSecretInResponse ==
    \A p \in SeedPlaintexts :
        \A text \in {last.resp.detail, last.resp.status, last.resp.code} :
            ~Contains(text, hexlify(p))
\* a decrypt-seed that stored a secret was answered ok
C8_Witness ==
    /\ last.op = "decrypt" /\ IsSuccess(last.resp)
    /\ lastOk.set /\ last.hex_seed = lastOk.hex /\ Len(last.hex_seed) > 0
    /\ SEED_FILE.text = last.hex_seed \o NL

\* C9: each of the six error kinds is answered with a failure response, never
\* with a success, and two answers of different kinds never carry the same response.
C9_DistinctErrorKinds ==
    /\ last.error # "none" => IsFailure(last.resp)
    /\ (kept.error # "none" /\ last.error # "none" /\ kept.error # last.error)
          => kept.resp # last.resp

\* C10: valid_for is 30 - (t mod 30) for the clock reading t: between 1 and 30,
\* and 30 when t is a multiple of 30.
C10_ValidForRange ==
    (last.op = "generate" /\ "valid_for" \in last.resp.keys)
        => /\ last.resp.valid_for \in 1..30
           /\ last.resp.valid_for = 30 - (last.t_valid % 30)
           /\ (last.t_valid % 30 = 0 => last.resp.valid_for = 30)
\* valid_for was computed at a multiple of 30
C10_Witness ==
    last.op = "generate" /\ "valid_for" \in last.resp.keys /\ last.t_valid % 30 = 0
       /\ last.resp.valid_for = 30

\* C11: the code generate-2fa returns depends on the clock only through the
\* time step: it is the code of the first second of the step the clock is in,
\* so every call within one 30-second step returns the same code.
C11_SameCodeWithinStep ==
    (last.op = "generate" /\ "code" \in last.resp.keys)
        => last.resp.code = totp_at(last.hex_seed, last.t_code - (last.t_code % 30))
\* a code was returned in the last second of a time step
C11_Witness ==
    /\ last.op = "generate" /\ "code" \in last.resp.keys /\ Len(last.resp.code) = 6
    /\ last.t_code % 30 = 29

\* C12 as stated: verify-2fa at time t answers valid = false for the code of
\* time t + 60, which lies two time steps ahead of the clock.
C12_TwoStepsAheadRejected ==
    (/\ last.op = "verify" /\ "totp" \in last.used /\ ValidSecretHex(last.hex_seed)
     /\ last.body.code = totp_at(last.hex_seed, last.t_code + 60))
        => last.resp = ValidResponse(FALSE)

\* the six digits of time t + 60 are not those of a time step inside the window
NoCollision(hex, t) ==
    \A k \in {0 - 1, 0, 1} : totp_at(hex, t + 60) # totp_at(hex, t + k * 30)
\* C12: verify-2fa at time t answers valid = false for the code of time t + 60,
\* unless the six digits of that code coincide with those of one of the three
\* time steps inside the window.
C12_TwoStepsAheadRejectedUnlessEqual ==
    (/\ last.op = "verify" /\ "totp" \in last.used /\ ValidSecretHex(last.hex_seed)
     /\ last.body.code = totp_at(last.hex_seed, last.t_code + 60)
     /\ NoCollision(last.hex_seed, last.t_code))
        => last.resp = ValidResponse(FALSE)
\* the code of time t + 60 was presented and refused
C12_Witness ==
    /\ last.op = "verify" /\ "totp" \in last.used /\ ValidSecretHex(last.hex_seed)
    /\ last.body.code = totp_at(last.hex_seed, last.t_code + 60)
    /\ NoCollision(last.hex_seed, last.t_code)
    /\ last.resp.keys = {"valid"} /\ ~last.resp.valid

\* C13: once a decrypt-seed has returned ok and nothing but restarts of the
\* process has followed, the seed file still holds the line that decrypt-seed
\* wrote, generate-2fa and verify-2fa hand that secret to the TOTP engine, and
\* none is answered with the seed-not-initialized error.
C13_SecretSurvivesRestart ==
    (lastOk.set /\ lastOk.since = "restart")
        => /\ SEED_FILE = [exists |-> TRUE, text |-> lastOk.hex \o NL]
           /\ \A r \in Readers : rd[r].pc = "totp" => rd[r].hex_seed = lastOk.hex
           /\ last.resp # HTTPException(500, MsgSeedNotDecrypted)
\* after a restart generate-2fa returned a code of the secret stored before it
C13_Witness ==
    /\ lastOk.set /\ lastOk.since = "restart"
    /\ last.op = "generate" /\ "code" \in last.resp.keys
    /\ last.hex_seed = lastOk.hex /\ Len(last.hex_seed) > 0

\* C14: what a decrypt-seed that returns ok leaves in the seed file is the hex
\* line of its ciphertext's plaintext and nothing else, whatever the file held
\* before; so a second call with the same ciphertext and key leaves the file as
\* the first call left it.
C14_DecryptSeedIdempotent ==
    (last.op = "decrypt" /\ IsSuccess(last.resp) /\ ~last.foreign)
        => /\ last.hex_seed = hexlify(last.enc.plaintext)
           /\ SEED_FILE = [exists |-> TRUE, text |-> hexlify(last.enc.plaintext) \o NL]
\* a second call with the same ciphertext returned ok and left the file as it was
C14_Witness ==
    /\ last.op = "decrypt" /\ IsSuccess(last.resp) /\ ~last.foreign
    /\ last.before = [exists |-> TRUE, text |-> hexlify(last.enc.plaintext) \o NL]
    /\ Len(last.enc.plaintext) > 0
    /\ SEED_FILE = last.before

\* C15: for the secret hex 3132333435363738393031323334353637383930 stored,
\* generate-2fa at time 59 returns the code 287082 (the RFC 6238 test vector,
\* reduced to six digits).
C15_RfcVector ==
    (/\ last.op = "generate" /\ "code" \in last.resp.keys /\ last.t_code = 59
     /\ last.hex_seed = <<"3","1","3","2","3","3","3","4","3","5","3","6","3","7","3","8","3","9","3","0",
                          "3","1","3","2","3","3","3","4","3","5","3","6","3","7","3","8","3","9","3","0">>)
        => last.resp.code = <<"2", "8", "7", "0", "8", "2">>
\* generate-2fa answered at time 59 with the test secret stored
C15_Witness ==
    /\ last.op = "generate" /\ "code" \in last.resp.keys /\ last.t_code = 59
    /\ SEED_FILE.text =
          <<"3","1","3","2","3","3","3","4","3","5","3","6","3","7","3","8","3","9","3","0",
            "3","1","3","2","3","3","3","4","3","5","3","6","3","7","3","8","3","9","3","0", "\n">>
    /\ last.resp.code = <<"2", "8", "7", "0", "8", "2">>

\* C16: with the stored secret unchanged, a code that generate-2fa computed at
\* time t is accepted by verify-2fa at every later time t' whose time step is
\* the step of t or the one after it; in particular at t' = t.
C16_IssuedCodeAccepted ==
    (/\ last.op = "verify" /\ "totp" \in last.used
     /\ kept.error = "none" /\ "code" \in kept.resp.keys
     /\ last.body.code = kept.resp.code
     /\ last.t_code >= kept.t_code
     /\ (last.t_code \div 30) - (kept.t_code \div 30) <= 1)
        => last.resp = ValidResponse(TRUE)
\* a code computed in one time step was accepted in the next
C16_Witness ==
    /\ last.op = "verify" /\ "totp" \in last.used
    /\ kept.error = "none" /\ "code" \in kept.resp.keys
    /\ last.body.code = kept.resp.code
    /\ (last.t_code \div 30) - (kept.t_code \div 30) = 1
    /\ last.body.code # totp_at(last.hex_seed, last.t_code)
    /\ last.resp = ValidResponse(TRUE)

\* a step of generate-2fa, verify-2fa or health
ReaderStep == rd' # rd \/ last'.op \in {"generate", "verify", "health"}
\* C17: no step of generate-2fa, verify-2fa or health changes the seed file;
\* and when no two requests have ever overlapped, the answer of verify-2fa is
\* the verdict for (the secret in the file, the clock, the candidate) and of
\* nothing else, so the same candidate at the same time gets the same verdict.
C17_ReadersLeaveSlot ==
    [][ReaderStep =>
          /\ SEED_FILE' = SEED_FILE
          /\ (last'.op = "verify" /\ "totp" \in last'.used /\ ~concurrent')
                => LET v == verify_totp_code(strip(SEED_FILE.text), last'.body.code, 1, now)
                   IN  last'.resp = IF v.ok THEN ValidResponse(v.value)
                                    ELSE HTTPException(500, MsgErrorVerifying)]_vars
\* verify-2fa accepted a code and the file still holds the stored secret
C17_Witness ==
    /\ last.op = "verify" /\ last.resp = ValidResponse(TRUE) /\ ~concurrent
    /\ lastOk.set /\ SEED_FILE.text = lastOk.hex \o NL /\ last.hex_seed = lastOk.hex

\* C18: the code in a generate-2fa response is the code of the time step in
\* which its valid_for seconds remain, that is, of the step of the clock
\* reading valid_for was computed from.
C18_FieldsOfOneStep ==
    (last.op = "generate" /\ {"code", "valid_for"} \subseteq last.resp.keys)
        => /\ last.t_code \div 30 = last.t_valid \div 30
           /\ last.resp.code = totp_at(last.hex_seed, last.t_valid)

\* C19: a decrypt-seed that is answered with an error, the persistence error
\* included, leaves the seed file as it was when the request began (no other
\* request having written it meanwhile).
C19_FailedDecryptLeavesSlot ==
    (last.op = "decrypt" /\ IsFailure(last.resp) /\ ~last.foreign)
        => SEED_FILE = last.before

\* C20: when a decrypt-seed returns ok, another decrypt-seed with a different
\* secret has returned ok while it was in flight, and no decrypt-seed is in
\* flight any more, the seed file holds the complete line of one of the two
\* secrets: not a mixture of both, and not an empty text.
C20_OneOfTwoSecrets ==
    (/\ last.op = "decrypt" /\ IsSuccess(last.resp)
     /\ last.rival # <<>> /\ last.rival # last.hex_seed
     /\ \A w \in DecryptSlots : ~WriterBusy(w))
        => SEED_FILE.text \in {last.hex_seed \o NL, last.rival \o NL}
====
